---- MODULE Spec2Model ----
(***************************************************************************)
(* Model of ether_tester: the host program that commands an FPGA over a    *)
(* serial line to emit a UDP test datagram and verifies the bytes it gets. *)
(*                                                                         *)
(*   main.rs       the program: Params, TestParams, udp_test, main         *)
(*   test_case.rs  TestCase: per-case seed/gen, expected, to_bytes         *)
(*   params.rs     Params of TestCase (bytes, address triples)             *)
(*                                                                         *)
(* Spec   is the run of main (setup, then the repetition loop).            *)
(* FnSpec applies the pure functions of TestParams and TestCase to inputs  *)
(* drawn from bounded sets.                                                *)
(*                                                                         *)
(* A u64 is an 8-tuple of bytes, most significant first, so that byte      *)
(* order conversions are modelled by what they do to the bytes.            *)
(***************************************************************************)
EXTENDS Integers, Sequences, FiniteSets, TLC

VARIABLES
    little_endian,    \* the target's byte order (cfg!(target_endian))
    overflow_checks,  \* the build's overflow-checks setting (debug: on, release: off)
    pc,               \* position of main
    setup_errs,       \* the setup calls of main that returned Err
    reps,             \* params.reps
    rep,              \* the loop variable of main
    test_params,      \* the TestParams of main
    draws,            \* number of (seed, gen) pairs drawn with rand::random so far
    expected,         \* udp_test: local expected
    sent,             \* bytes handed to port.write in this repetition, or <<>>
    io,               \* I/O calls of the current repetition, in order
    rdata,            \* udp_test: local rdata
    size,             \* udp_test: byte count returned by recv_from, or -1
    dgram_len,        \* bytes in the datagram the device sent this repetition, or -1
    any_failed,       \* main: local any_failed
    verdicts,         \* the result of udp_test in each repetition so far
    tc,               \* FnSpec: a TestCase
    tp,               \* FnSpec: a TestParams
    arg_size,         \* FnSpec: the size argument of TestParams::expected
    ret               \* FnSpec: the last call and what it returned

vars == << little_endian, overflow_checks, pc, setup_errs, reps, rep, test_params,
           draws, expected, sent, io, rdata, size, dgram_len, any_failed, verdicts,
           tc, tp, arg_size, ret >>

runVars == << pc, setup_errs, reps, rep, test_params, draws, expected, sent, io,
              rdata, size, dgram_len, any_failed, verdicts >>

fnVars == << tc, tp, arg_size, ret >>

----------------------------------------------------------------------------
(* Bounds and program constants *)

\* The number of data bytes in a test packet.
DATA_BYTES == 256

\* Largest repetition count explored.
MaxReps == 2

\* Largest payload byte count / size argument explored in FnSpec.
MaxSize == 3

\* Values rand::random::<u8>() is drawn from in the model (a subset of 0..255
\* holding the cases with and without 8-bit overflow).
SeedValues == {0, 250, 255}
GenValues == {0, 1, 10}

----------------------------------------------------------------------------
(* Integers of the program as byte tuples, most significant byte first *)

Zeros(n) == [k \in 1..n |-> 0]

Reverse(s) == [k \in 1..Len(s) |-> s[Len(s) + 1 - k]]

\* u8/u16/u32 -> u64 (.into()): zero extension.
Into64(b) == Zeros(8 - Len(b)) \o b

\* u64::to_be: a no-op on a big-endian target, a byte swap on a little-endian one.
ToBe(data) == IF little_endian THEN Reverse(data) ELSE data

\* ((v >> (8 * i)) & 0xFF) as u8: the byte of significance i.
ShiftMask(v, i) == v[8 - i]

\* Off-by-one loop bound: (1..bytes).rev() leaves out the lowest byte.
append_bytes_from_one(vec, data, bytes) ==
    LET v == ToBe(data)
    IN  vec \o [k \in 1..(bytes - 1) |-> ShiftMask(v, bytes - k)]

\* append_bytes: for i in (0..bytes).rev() push byte i of data.to_be().
append_bytes(vec, data, bytes) ==
    LET v == ToBe(data)
    IN  vec \o [k \in 1..bytes |-> ShiftMask(v, bytes - k)]

----------------------------------------------------------------------------
(* The expected sequence *)

\* What a call returns: a value, or a panic that unwinds to the top of main.
Returned(v) == [panicked |-> FALSE, v |-> v]
Panicked == [panicked |-> TRUE, v |-> <<>>]

\* One pass of the loop body, let next = v[i - 1] + self.gen; v.push(next):
\* with overflow checks the u8 addition panics on overflow, without them it
\* wraps to the low 8 bits. (v[i - 1] is v[i] here: TLA+ counts from 1.)
LoopBody(st, i, gen) ==
    IF st.panicked THEN st
    ELSE LET sum == st.v[i] + gen
         IN  IF sum > 255 /\ overflow_checks
             THEN Panicked
             ELSE Returned(Append(st.v, sum % 256))

\* for i in lo..hi { body }: the passes in order, the range split in halves
\* so that the evaluation nests to a depth of log2(hi - lo).
RECURSIVE ForRange(_, _, _, _)
ForRange(st, lo, hi, gen) ==
    IF lo >= hi THEN st
    ELSE IF hi - lo = 1 THEN LoopBody(st, lo, gen)
    ELSE LET mid == lo + ((hi - lo) \div 2)
             first == ForRange(st, lo, mid, gen)
         IN  IF first.panicked THEN first ELSE ForRange(first, mid, hi, gen)

\* TestParams::expected(size): pushes the seed, then loops over 1..size.
TestParams_expected(self, n) == ForRange(Returned(<< self.seed >>), 1, n, self.gen)

\* TestCase::expected(): the same, guarded by params.bytes > 0.
TestCase_expected(self) ==
    IF self.params.bytes > 0
    THEN ForRange(Returned(<< self.seed >>), 1, self.params.bytes, self.gen)
    ELSE Returned(<<>>)

----------------------------------------------------------------------------
(* The control packet *)

\* TestParams::to_bytes: the fields in the order of main.rs; the assert! on
\* the length panics when it fails.
TestParams_to_bytes(self) ==
    LET b1 == append_bytes(<<>>, self.src_ip, 8)
        b2 == append_bytes(b1, self.src_mac, 6)
        b3 == append_bytes(b2, Into64(self.src_port), 2)
        b4 == append_bytes(b3, self.dest_ip, 8)
        b5 == append_bytes(b4, self.dest_mac, 6)
        b6 == append_bytes(b5, Into64(self.dest_port), 2)
        b7 == append_bytes(b6, Into64(<< self.seed >>), 1)
        b8 == append_bytes(b7, Into64(<< self.gen >>), 1)
    IN  IF Len(b8) = 34 THEN Returned(b8) ELSE Panicked

\* TestCase::to_bytes: the fields in the order of test_case.rs.
TestCase_to_bytes(self) ==
    LET b1 == append_bytes(<<>>, Into64(self.params.src_ip), 4)
        b2 == append_bytes(b1, Into64(self.params.src_port), 2)
        b3 == append_bytes(b2, self.params.src_mac, 6)
        b4 == append_bytes(b3, Into64(self.params.dest_ip), 4)
        b5 == append_bytes(b4, Into64(self.params.dest_port), 2)
        b6 == append_bytes(b5, self.params.dest_mac, 6)
        b7 == append_bytes(b6, Into64(<< self.seed >>), 1)
        b8 == append_bytes(b7, Into64(<< self.gen >>), 1)
    IN  IF Len(b8) = 26 THEN Returned(b8) ELSE Panicked

----------------------------------------------------------------------------
(* Inputs *)

\* (ip, port, mac) triples as parse_ip_port_mac yields them: a u32, a u16 and
\* a u64 whose top two bytes are zero.
SrcTriples ==
    { [ip |-> << 192, 168, 1, 10 >>, port |-> << 16, 225 >>,
       mac |-> << 0, 0, 170, 187, 204, 221, 238, 255 >>],
      [ip |-> << 0, 0, 0, 0 >>, port |-> << 0, 0 >>,
       mac |-> << 0, 0, 0, 0, 0, 0, 0, 0 >>] }

DestTriples ==
    { [ip |-> << 10, 0, 0, 1 >>, port |-> << 0, 80 >>,
       mac |-> << 0, 0, 1, 2, 3, 4, 5, 6 >>],
      [ip |-> << 0, 0, 0, 0 >>, port |-> << 0, 0 >>,
       mac |-> << 0, 0, 0, 0, 0, 0, 0, 0 >>] }

\* params.rs Params, the fields TestCase reads.
MkParams(bytes, src, dest) ==
    [bytes |-> bytes,
     src_ip |-> src.ip, src_port |-> src.port, src_mac |-> src.mac,
     dest_ip |-> dest.ip, dest_port |-> dest.port, dest_mac |-> dest.mac]

\* TestCase::new(params) with the two bytes rand::random() returned.
TestCase_new(params, seed, gen) == [params |-> params, seed |-> seed, gen |-> gen]

\* TestParams::new(ip, mac, port) with the two bytes rand::random() returned.
TestParams_new(ip, mac, port, seed, gen) ==
    [src_ip |-> Zeros(8), src_mac |-> Zeros(8), src_port |-> Zeros(2),
     dest_ip |-> ip, dest_mac |-> mac, dest_port |-> port,
     seed |-> seed, gen |-> gen]

NoCall == [fn |-> "none", out |-> Returned(<<>>)]

----------------------------------------------------------------------------
(* The run of main: initial state *)

NoTestParams == TestParams_new(Zeros(8), Zeros(8), Zeros(2), 0, 0)

RunInit ==
    /\ pc = "get_params"
    /\ setup_errs = {}
    /\ reps \in 0..MaxReps
    /\ rep = 0
    /\ test_params = NoTestParams
    /\ draws = 0
    /\ expected = <<>>
    /\ sent = <<>>
    /\ io = <<>>
    /\ rdata = <<>>
    /\ size = -1
    /\ dgram_len = -1
    /\ any_failed = FALSE
    /\ verdicts = <<>>

----------------------------------------------------------------------------
(* The run of main: setup *)

\* Params::get(): on Err main prints the message and calls process::exit(1).
ParamsGet ==
    /\ pc = "get_params"
    /\ \E ok \in BOOLEAN :
         IF ok
         THEN pc' = "open" /\ UNCHANGED setup_errs
         ELSE pc' = "exit" /\ setup_errs' = setup_errs \cup {"params"}
    /\ UNCHANGED << little_endian, overflow_checks, reps, rep, test_params, draws,
                    expected, sent, io, rdata, size, dgram_len, any_failed, verdicts,
                    fnVars >>

\* serial::open(&params.port)?: on Err main returns the error.
SerialOpen ==
    /\ pc = "open"
    /\ \E ok \in BOOLEAN :
         IF ok
         THEN pc' = "reconfigure" /\ UNCHANGED setup_errs
         ELSE pc' = "exit" /\ setup_errs' = setup_errs \cup {"open"}
    /\ UNCHANGED << little_endian, overflow_checks, reps, rep, test_params, draws,
                    expected, sent, io, rdata, size, dgram_len, any_failed, verdicts,
                    fnVars >>

\* let _ = port.reconfigure(..): the Result is dropped, main goes on either way.
SerialReconfigure ==
    /\ pc = "reconfigure"
    /\ \E ok \in BOOLEAN :
         setup_errs' = IF ok THEN setup_errs ELSE setup_errs \cup {"reconfigure"}
    /\ pc' = "bind"
    /\ UNCHANGED << little_endian, overflow_checks, reps, rep, test_params, draws,
                    expected, sent, io, rdata, size, dgram_len, any_failed, verdicts,
                    fnVars >>

\* UdpSocket::bind(params.ip)?
SocketBind ==
    /\ pc = "bind"
    /\ \E ok \in BOOLEAN :
         IF ok
         THEN pc' = "set_read_timeout" /\ UNCHANGED setup_errs
         ELSE pc' = "exit" /\ setup_errs' = setup_errs \cup {"bind"}
    /\ UNCHANGED << little_endian, overflow_checks, reps, rep, test_params, draws,
                    expected, sent, io, rdata, size, dgram_len, any_failed, verdicts,
                    fnVars >>

\* socket.set_read_timeout(Some(Duration::new(1, 0)))?
SocketSetReadTimeout ==
    /\ pc = "set_read_timeout"
    /\ \E ok \in BOOLEAN :
         IF ok
         THEN pc' = "new_test_params" /\ UNCHANGED setup_errs
         ELSE pc' = "exit" /\ setup_errs' = setup_errs \cup {"set_read_timeout"}
    /\ UNCHANGED << little_endian, overflow_checks, reps, rep, test_params, draws,
                    expected, sent, io, rdata, size, dgram_len, any_failed, verdicts,
                    fnVars >>

\* let test_params = TestParams::new(0, 0, 0): the one place main draws a
\* seed and a gen.
NewTestParams ==
    /\ pc = "new_test_params"
    /\ \E s \in SeedValues, g \in GenValues :
         test_params' = TestParams_new(Zeros(8), Zeros(8), Zeros(2), s, g)
    /\ draws' = draws + 1
    /\ pc' = "loop"
    /\ UNCHANGED << little_endian, overflow_checks, setup_errs, reps, rep,
                    expected, sent, io, rdata, size, dgram_len, any_failed, verdicts,
                    fnVars >>

----------------------------------------------------------------------------
(* The run of main: one repetition *)

MsgWrite == "serial write failed"
MsgNotEnough == "Did not receive enough data"
MsgSocket == "Error reading socket"
MsgMismatch == "Data received did not match the expected value"

Min(a, b) == IF a < b THEN a ELSE b

Prefix(s, n) == SubSeq(s, 1, n)

\* s with the byte at index k changed.
Corrupt(s, k) == [s EXCEPT ![k] = (s[k] + 1) % 256]

\* The datagrams the device may answer with, given what the host expects:
\* the right one, ones with a wrong byte, shorter ones, a longer one.
Datagrams(e) ==
    { e,
      Corrupt(e, 1),
      Corrupt(e, DATA_BYTES),
      Prefix(e, 0),
      Prefix(e, DATA_BYTES - 1),
      Corrupt(Prefix(e, DATA_BYTES - 1), 1),
      e \o << 7 >> }

\* What recv_from leaves in a zeroed buffer of DATA_BYTES bytes: the leading
\* bytes of the datagram (one longer than the buffer is cut), then zeros.
Received(d) ==
    LET n == Min(Len(d), DATA_BYTES)
    IN  Prefix(d, n) \o Zeros(DATA_BYTES - n)

\* The match arms of main's loop, taken when udp_test returns result.
MainMatch_Overwrite(result) ==
    /\ verdicts' = Append(verdicts, result)
    /\ any_failed' = (result # "Ok")
    /\ rep' = rep + 1
    /\ pc' = "loop"

MainMatch(result) ==
    /\ verdicts' = Append(verdicts, result)
    /\ any_failed' = (any_failed \/ result # "Ok")
    /\ rep' = rep + 1
    /\ pc' = "loop"

\* The length check dropped.
udp_test_check_no_length(n, data, exp) ==
    IF data # exp THEN MsgMismatch ELSE "Ok"

\* The received bytes compared before the length.
udp_test_check_content_first(n, data, exp) ==
    IF \E i \in 1..Min(n, Len(exp)) : data[i] # exp[i] THEN MsgMismatch
    ELSE IF n # Len(exp) THEN MsgNotEnough
    ELSE "Ok"

\* udp_test after a successful recv_from: the size is checked first, then the
\* whole buffer is compared with the expected sequence.
udp_test_check(n, data, exp) ==
    IF n # Len(exp) THEN MsgNotEnough
    ELSE IF data # exp THEN MsgMismatch
    ELSE "Ok"

\* for rep in 0..params.reps: the next repetition enters udp_test, which first
\* computes expected; a panic there unwinds out of main.
UdpTestExpected ==
    /\ pc = "loop"
    /\ rep < reps
    /\ LET e == TestParams_expected(test_params, DATA_BYTES)
       IN  IF e.panicked
           THEN pc' = "panicked" /\ UNCHANGED expected
           ELSE pc' = "write" /\ expected' = e.v
    /\ io' = <<>>
    /\ sent' = <<>>
    /\ rdata' = <<>>
    /\ size' = -1
    /\ dgram_len' = -1
    /\ UNCHANGED << little_endian, overflow_checks, setup_errs, reps, rep,
                    test_params, draws, any_failed, verdicts, fnVars >>

\* The write error ignored: udp_test goes on to the socket.
UdpTestWrite_IgnoreErr ==
    /\ pc = "write"
    /\ LET b == TestParams_to_bytes(test_params)
       IN  /\ ~b.panicked
           /\ sent' = b.v
           /\ \E ok \in BOOLEAN :
                io' = Append(io, IF ok THEN "write_ok" ELSE "write_err")
           /\ pc' = "recv"
           /\ UNCHANGED << rep, any_failed, verdicts >>
    /\ UNCHANGED << little_endian, overflow_checks, setup_errs, reps, test_params,
                    draws, expected, rdata, size, dgram_len, fnVars >>

\* port.write(&test_params.to_bytes()): on Err udp_test returns the message.
UdpTestWrite ==
    /\ pc = "write"
    /\ LET b == TestParams_to_bytes(test_params)
       IN  IF b.panicked
           THEN /\ pc' = "panicked"
                /\ UNCHANGED << sent, io, rep, any_failed, verdicts >>
           ELSE /\ sent' = b.v
                /\ \E ok \in BOOLEAN :
                     IF ok
                     THEN /\ io' = Append(io, "write_ok")
                          /\ pc' = "recv"
                          /\ UNCHANGED << rep, any_failed, verdicts >>
                     ELSE /\ io' = Append(io, "write_err")
                          /\ MainMatch(MsgWrite)
    /\ UNCHANGED << little_endian, overflow_checks, setup_errs, reps, test_params,
                    draws, expected, rdata, size, dgram_len, fnVars >>

\* socket.recv_from(&mut rdata) returned Err: no datagram came in time, or,
\* on a platform that reports a datagram longer than the buffer as an error
\* (Windows, WSAEMSGSIZE), one of DATA_BYTES + 1 bytes came.
UdpTestRecvErr ==
    /\ pc = "recv"
    /\ dgram_len' \in {-1, DATA_BYTES + 1}
    /\ io' = Append(io, "recv_err")
    /\ rdata' = Zeros(DATA_BYTES)
    /\ MainMatch(MsgSocket)
    /\ UNCHANGED << little_endian, overflow_checks, setup_errs, reps, test_params,
                    draws, expected, sent, size, fnVars >>

\* socket.recv_from(&mut rdata) returned Ok((size, _)); udp_test checks the
\* data and returns.
UdpTestRecvOk ==
    /\ pc = "recv"
    /\ \E d \in Datagrams(expected) :
         /\ size' = Min(Len(d), DATA_BYTES)
         /\ dgram_len' = Len(d)
         /\ rdata' = Received(d)
         /\ MainMatch(udp_test_check(Min(Len(d), DATA_BYTES), Received(d), expected))
    /\ io' = Append(io, "recv_ok")
    /\ UNCHANGED << little_endian, overflow_checks, setup_errs, reps, test_params,
                    draws, expected, sent, fnVars >>

\* The loop is over: main prints the closing line and returns Ok(()).
LoopExit ==
    /\ pc = "loop"
    /\ rep >= reps
    /\ pc' = "done"
    /\ UNCHANGED << little_endian, overflow_checks, setup_errs, reps, rep,
                    test_params, draws, expected, sent, io, rdata, size, dgram_len,
                    any_failed, verdicts, fnVars >>

Init ==
    /\ little_endian \in BOOLEAN
    /\ overflow_checks \in BOOLEAN
    /\ RunInit
    /\ tc = TestCase_new(MkParams(0, CHOOSE t \in SrcTriples : t.ip = Zeros(4),
                                  CHOOSE t \in DestTriples : t.ip = Zeros(4)), 0, 0)
    /\ tp = NoTestParams
    /\ arg_size = 0
    /\ ret = NoCall

Next ==
    \/ ParamsGet
    \/ SerialOpen
    \/ SerialReconfigure
    \/ SocketBind
    \/ SocketSetReadTimeout
    \/ NewTestParams
    \/ UdpTestExpected
    \/ UdpTestWrite
    \/ UdpTestRecvErr
    \/ UdpTestRecvOk
    \/ LoopExit

Spec == Init /\ [][Next]_vars

----------------------------------------------------------------------------
(* FnSpec: the pure functions applied to drawn inputs *)

FnInit ==
    /\ little_endian \in BOOLEAN
    /\ overflow_checks \in BOOLEAN
    /\ RunInit /\ reps = 0
    /\ arg_size \in 0..MaxSize
    /\ \E src \in SrcTriples, dest \in DestTriples, s \in SeedValues, g \in GenValues :
          /\ tc = TestCase_new(MkParams(arg_size, src, dest), s, g)
          /\ tp = TestParams_new(Into64(dest.ip), dest.mac, dest.port, s, g)
    /\ ret = NoCall

CallTestCaseExpected ==
    /\ ret' = [fn |-> "TestCase::expected", out |-> TestCase_expected(tc)]
    /\ UNCHANGED << little_endian, overflow_checks, runVars, tc, tp, arg_size >>

CallTestCaseToBytes ==
    /\ ret' = [fn |-> "TestCase::to_bytes", out |-> TestCase_to_bytes(tc)]
    /\ UNCHANGED << little_endian, overflow_checks, runVars, tc, tp, arg_size >>

CallTestParamsExpected ==
    /\ ret' = [fn |-> "TestParams::expected", out |-> TestParams_expected(tp, arg_size)]
    /\ UNCHANGED << little_endian, overflow_checks, runVars, tc, tp, arg_size >>

CallTestParamsToBytes ==
    /\ ret' = [fn |-> "TestParams::to_bytes", out |-> TestParams_to_bytes(tp)]
    /\ UNCHANGED << little_endian, overflow_checks, runVars, tc, tp, arg_size >>

FnNext ==
    \/ CallTestCaseExpected
    \/ CallTestCaseToBytes
    \/ CallTestParamsExpected
    \/ CallTestParamsToBytes

FnSpec == FnInit /\ [][FnNext]_vars

----------------------------------------------------------------------------
(* Claims about the pure functions (checked under FnSpec) *)

IsExpectedCall == ret.fn \in {"TestCase::expected", "TestParams::expected"}
IsToBytesCall == ret.fn \in {"TestCase::to_bytes", "TestParams::to_bytes"}

\* The seed and step of the object the last call was made on.
CallSeed == IF ret.fn = "TestCase::expected" THEN tc.seed ELSE tp.seed
CallGen == IF ret.fn = "TestCase::expected" THEN tc.gen ELSE tp.gen

\* C1: for every seed s, step g and length n the generator returns, without
\* aborting, a sequence with seq[0] = s and seq[i] = (seq[i-1] + g) mod 256
\* for every 1 <= i < n (indices below are one higher: TLA+ counts from 1).
C1_GeneratorWrapsAndNeverAborts ==
    IsExpectedCall =>
        /\ ~ret.out.panicked
        /\ \A i \in 1..arg_size :
              /\ i \in DOMAIN ret.out.v
              /\ i = 1 => ret.out.v[i] = CallSeed
              /\ i > 1 => ret.out.v[i] = (ret.out.v[i - 1] + CallGen) % 256

\* The low n bytes of a value, most significant first.
Low(b, n) == SubSeq(b, Len(b) - n + 1, Len(b))

\* The packet layout the claim states, for the TestCase the call was made on.
StatedPacket(c) ==
    c.params.src_ip \o c.params.src_port \o Low(c.params.src_mac, 6)
    \o c.params.dest_ip \o c.params.dest_port \o Low(c.params.dest_mac, 6)
    \o << c.seed >> \o << c.gen >>

\* C2: the packet TestCase::to_bytes produces is source IP (4), source port
\* (2), source hardware address (low 6 bytes), destination IP (4),
\* destination port (2), destination hardware address (low 6 bytes), seed,
\* step, each most significant byte first, on a host of either byte order.
C2_PacketIsBigEndianOnEveryHost ==
    ret.fn = "TestCase::to_bytes" =>
        /\ ~ret.out.panicked
        /\ ret.out.v = StatedPacket(tc)

C6_GeneratedLengthIsN ==
    IsExpectedCall => ~ret.out.panicked /\ Len(ret.out.v) = arg_size

----------------------------------------------------------------------------
(* Claims about the run of main (checked under Spec) *)

Last(q) == q[Len(q)]

\* The number of repetitions so far whose verdict was Fail.
NumFailed == Cardinality({k \in 1..Len(verdicts) : verdicts[k] # "Ok"})

\* A repetition has just returned to the loop of main.
RepDone == pc \in {"loop", "done"} /\ verdicts # <<>>

\* The last repetition sent and received successfully and was then verified.
Verified == RepDone /\ io = << "write_ok", "recv_ok" >>

\* The received bytes are rdata[1..size]; they match the expected sequence
\* when there are as many and each equals the expected byte at its index.
ReceivedMatches ==
    /\ size = Len(expected)
    /\ \A i \in 1..size : rdata[i] = expected[i]

\* C4: a repetition whose send and receive both succeed has verdict Pass if
\* and only if the received byte count equals the length of the expected
\* sequence and every received byte equals the expected byte at its index.
C4_PassIffExactMatch ==
    Verified => (Last(verdicts) = "Ok" <=> ReceivedMatches)

\* C4 witnesses: a verified repetition that passed, and one that failed on
\* the last byte alone.
C4_Witness ==
    /\ Verified
    /\ verdicts = << "Ok", MsgMismatch >>
    /\ size = DATA_BYTES
    /\ \A i \in 1..(DATA_BYTES - 1) : rdata[i] = expected[i]
    /\ rdata[DATA_BYTES] # expected[DATA_BYTES]

\* Some received byte differs from the expected byte at the same index.
ContentMismatch == \E i \in 1..Min(size, Len(expected)) : rdata[i] # expected[i]

C7_OneDrawPerRepetition ==
    pc \in {"write", "recv"} => draws = rep + 1

\* C8: a repetition whose control-channel write fails has verdict Fail and
\* attempts no receive; a receive only ever follows a successful write of
\* the same repetition.
C8_NoReceiveAfterFailedSend ==
    /\ \A k \in 1..Len(io) :
         io[k] \in {"recv_ok", "recv_err"} => (k = 2 /\ io[1] = "write_ok")
    /\ (io # <<>> /\ io[1] = "write_err") =>
         /\ io = << "write_err" >>
         /\ pc \in {"loop", "done"}
         /\ Len(verdicts) = rep
         /\ Last(verdicts) = MsgWrite
         /\ any_failed

\* C8 witness: a repetition ended by a failed write, after one that received.
C8_Witness ==
    /\ io = << "write_err" >>
    /\ Len(verdicts) = 2
    /\ verdicts[1] = "Ok"
    /\ verdicts[2] = MsgWrite

\* C9: whatever the outcomes of the repetitions, a run that has left the
\* loop has executed exactly reps repetitions and completed.
C9_RunsAllRepetitions ==
    pc \in {"done", "panicked"} => (pc = "done" /\ Len(verdicts) = reps)

\* The failure tally main keeps is the flag any_failed: one failure or more.
FailedTally == IF any_failed THEN 1 ELSE 0

C11_NoRepetitionAfterSetupFailure ==
    setup_errs # {} => (io = <<>> /\ sent = <<>> /\ verdicts = <<>>)

\* C12: a repetition in which the device's datagram carries more bytes than
\* the expected sequence has ends with verdict Fail, also when its leading
\* bytes all match and the buffer holds exactly the payload byte count.
C12_LongerDatagramFails ==
    (RepDone /\ dgram_len > Len(expected)) => Last(verdicts) # "Ok"

====
